---------------------------- MODULE Spec2Model ----------------------------
(***************************************************************************)
(* ShiftRegLCD: an HD44780 character LCD driven through an 8-bit shift     *)
(* register (src/lib/ShiftRegLCD/ShiftRegLCD.cpp).                         *)
(*                                                                         *)
(* The driver object is the record lcd.  Every call the driver makes to a  *)
(* platform primitive (pinMode, digitalWrite, shiftOut, delayMicroseconds) *)
(* is appended to trace, in program order; calls records which public      *)
(* operation was invoked, with which arguments, and where in trace its     *)
(* primitive calls start.                                                  *)
(*                                                                         *)
(* For callers that run concurrently (the last section), threads holds     *)
(* each caller's operation in progress and the lock that may serialize     *)
(* them, and bus what the hardware holds: the shift register, the enable   *)
(* level and the nibbles the controller has latched.                       *)
(***************************************************************************)
EXTENDS Integers, Sequences, FiniteSets, TLC

VARIABLES lcd, trace, calls, threads, bus

vars == <<lcd, trace, calls, threads, bus>>

(***************************************************************************)
(* Bounds of the model.                                                    *)
(***************************************************************************)
\* public operations invoked after the constructor has returned
MaxOps == 2

(***************************************************************************)
(* Constants of ShiftRegLCD.h and of the platform (Arduino.h).             *)
(***************************************************************************)
LOW == 0
HIGH == 1
OUTPUT == 1

TWO_WIRE == 204
SR_RS_BIT == 4
SR_EN_BIT == 128

LCD_CLEARDISPLAY == 1
LCD_RETURNHOME == 2
LCD_ENTRYMODESET == 4
LCD_DISPLAYCONTROL == 8
LCD_CURSORSHIFT == 16
LCD_FUNCTIONSET == 32
LCD_SETCGRAMADDR == 64
LCD_SETDDRAMADDR == 128

LCD_ENTRYLEFT == 2
LCD_ENTRYSHIFTINCREMENT == 1
LCD_ENTRYSHIFTDECREMENT == 0

LCD_DISPLAYON == 4
LCD_CURSORON == 2
LCD_CURSOROFF == 0
LCD_BLINKON == 1
LCD_BLINKOFF == 0

LCD_DISPLAYMOVE == 8
LCD_MOVERIGHT == 4
LCD_MOVELEFT == 0

LCD_8BITMODE == 16
LCD_4BITMODE == 0
LCD_2LINE == 8
LCD_1LINE == 0
LCD_5x10DOTS == 4
LCD_5x8DOTS == 0

(***************************************************************************)
(* C integer arithmetic on non-negative ints: &, | and the uint8_t         *)
(* conversions.                                                            *)
(***************************************************************************)
RECURSIVE BitAnd(_, _)
BitAnd(x, y) ==
    IF x = 0 \/ y = 0 THEN 0
    ELSE (x % 2) * (y % 2) + 2 * BitAnd(x \div 2, y \div 2)

RECURSIVE BitOr(_, _)
BitOr(x, y) ==
    IF x = 0 THEN y
    ELSE IF y = 0 THEN x
    ELSE (IF x % 2 = 1 \/ y % 2 = 1 THEN 1 ELSE 0) + 2 * BitOr(x \div 2, y \div 2)

\* conversion of an int to uint8_t
U8(x) == x % 256

\* x & ~m on a uint8_t x
ClearBits(x, m) == BitAnd(x, 255 - m)

(***************************************************************************)
(* Calls of the platform primitives.                                       *)
(***************************************************************************)
PinMode(pin, m) == [call |-> "pinMode", pin |-> pin, arg |-> m]
DigitalWrite(pin, level) == [call |-> "digitalWrite", pin |-> pin, arg |-> level]
\* shiftOut(_srdata_pin, _srclock_pin, MSBFIRST, val)
ShiftOut(d, val) == [call |-> "shiftOut", pin |-> d._srdata_pin, arg |-> val]
DelayMicroseconds(us) == [call |-> "delayMicroseconds", pin |-> 0, arg |-> us]


\* what an operation leaves behind: the driver, the primitive calls it made, and
\* its return value (<<>> for a void operation)
Res(d, out, ret) == [lcd |-> d, out |-> out, ret |-> ret]

(***************************************************************************)
(* Framing: send and init4bits.                                            *)
(***************************************************************************)
\* mode = mode ? SR_RS_BIT : 0
RegisterSelect(mode) == IF mode # 0 THEN SR_RS_BIT ELSE 0

\* val1 = mode | SR_EN_BIT | ((value >> 1) & 0x78)
UpperFrame(value, mode) ==
    U8(BitOr(BitOr(RegisterSelect(mode), SR_EN_BIT), BitAnd(value \div 2, 120)))

\* the lower nibble taken with the upper frame's shift
LowerFrame_SameShift(value, mode) ==
    U8(BitOr(BitOr(RegisterSelect(mode), SR_EN_BIT), BitAnd(value \div 2, 120)))

\* val2 = mode | SR_EN_BIT | ((value << 3) & 0x78)
LowerFrame(value, mode) ==
    U8(BitOr(BitOr(RegisterSelect(mode), SR_EN_BIT), BitAnd(value * 8, 120)))

\* if ( _two_wire ) shiftOut ( ..., 0x00 )
ClearShiftRegister(d) == IF d._two_wire # 0 THEN <<ShiftOut(d, 0)>> ELSE <<>>

\* the pin is left high
EnablePulse_NoFall(d) ==
    << DigitalWrite(d._enable_pin, HIGH),
       DelayMicroseconds(1) >>

\* the pulse without its hold time
EnablePulse_NoHold(d) ==
    << DigitalWrite(d._enable_pin, HIGH),
       DigitalWrite(d._enable_pin, LOW) >>

\* digitalWrite(HIGH); delayMicroseconds(1); digitalWrite(LOW)
EnablePulse(d) ==
    << DigitalWrite(d._enable_pin, HIGH),
       DelayMicroseconds(1),
       DigitalWrite(d._enable_pin, LOW) >>

\* the lower frame is shifted out but never strobed
send_OnePulse(d, value, mode) ==
    ClearShiftRegister(d)
    \o << DigitalWrite(d._enable_pin, LOW) >>
    \o << ShiftOut(d, UpperFrame(value, mode)) >>
    \o EnablePulse(d)
    \o ClearShiftRegister(d)
    \o << ShiftOut(d, LowerFrame(value, mode)) >>
    \o << DelayMicroseconds(40) >>

\* the shift register is cleared before the first frame only
send_OneClear(d, value, mode) ==
    ClearShiftRegister(d)
    \o << DigitalWrite(d._enable_pin, LOW) >>
    \o << ShiftOut(d, UpperFrame(value, mode)) >>
    \o EnablePulse(d)
    \o << ShiftOut(d, LowerFrame(value, mode)) >>
    \o EnablePulse(d)
    \o << DelayMicroseconds(40) >>

send(d, value, mode) ==
    ClearShiftRegister(d)
    \o << DigitalWrite(d._enable_pin, LOW) >>
    \o << ShiftOut(d, UpperFrame(value, mode)) >>
    \o EnablePulse(d)
    \o ClearShiftRegister(d)
    \o << ShiftOut(d, LowerFrame(value, mode)) >>
    \o EnablePulse(d)
    \o << DelayMicroseconds(40) >>

\* val1 = SR_EN_BIT | ((value >> 1) & 0x78)
InitFrame(value) == U8(BitOr(SR_EN_BIT, BitAnd(value \div 2, 120)))

init4bits(d, value) ==
    ClearShiftRegister(d)
    \o << DigitalWrite(d._enable_pin, LOW) >>
    \o << ShiftOut(d, InitFrame(value)) >>
    \o EnablePulse(d)
    \o << DelayMicroseconds(40) >>

command(d, value) == Res(d, send(d, value, LOW), <<>>)

\* the byte sent with the register-select bit clear
write_AsCommand(d, value) == Res(d, send(d, value, LOW), <<0>>)

write(d, value) == Res(d, send(d, value, HIGH), <<0>>)

(***************************************************************************)
(* High level commands.                                                    *)
(***************************************************************************)
\* the wait after the command is too short
clear_ShortWait(d) ==
    Res(d, command(d, LCD_CLEARDISPLAY).out \o << DelayMicroseconds(200) >>, <<>>)

clear(d) ==
    Res(d, command(d, LCD_CLEARDISPLAY).out \o << DelayMicroseconds(2000) >>, <<>>)

\* the command goes out as one nibble
home_NibbleOnly(d) ==
    Res(d, init4bits(d, LCD_RETURNHOME) \o << DelayMicroseconds(2000) >>, <<>>)

home(d) ==
    Res(d, command(d, LCD_RETURNHOME).out \o << DelayMicroseconds(2000) >>, <<>>)

row_offsets == << 0, 64, 20, 84 >>

\* the clamp of setCursor: row is a uint8_t, so _numlines-1 wraps modulo 256
ClampRow(d, row) == IF row > d._numlines THEN U8(d._numlines - 1) ELSE row

\* row_offsets[row]; outside the four entries the read is undefined and yields
\* whatever byte lies there (stray)
RowOffset(row, stray) == IF row < 4 THEN row_offsets[row + 1] ELSE stray

setCursor(d, col, row, stray) ==
    command(d, U8(BitOr(LCD_SETDDRAMADDR, col + RowOffset(ClampRow(d, row), stray))))

noDisplay(d) ==
    LET e == [d EXCEPT !._displaycontrol = ClearBits(@, LCD_DISPLAYON)]
    IN  command(e, BitOr(LCD_DISPLAYCONTROL, e._displaycontrol))

display(d) ==
    LET e == [d EXCEPT !._displaycontrol = BitOr(@, LCD_DISPLAYON)]
    IN  command(e, BitOr(LCD_DISPLAYCONTROL, e._displaycontrol))

noCursor(d) ==
    LET e == [d EXCEPT !._displaycontrol = ClearBits(@, LCD_CURSORON)]
    IN  command(e, BitOr(LCD_DISPLAYCONTROL, e._displaycontrol))

\* the bit is flipped
cursor_Toggle(d) ==
    LET e == [d EXCEPT !._displaycontrol =
                  IF BitAnd(@, LCD_CURSORON) # 0 THEN ClearBits(@, LCD_CURSORON)
                  ELSE BitOr(@, LCD_CURSORON)]
    IN  command(e, BitOr(LCD_DISPLAYCONTROL, e._displaycontrol))

cursor(d) ==
    LET e == [d EXCEPT !._displaycontrol = BitOr(@, LCD_CURSORON)]
    IN  command(e, BitOr(LCD_DISPLAYCONTROL, e._displaycontrol))

noBlink(d) ==
    LET e == [d EXCEPT !._displaycontrol = ClearBits(@, LCD_BLINKON)]
    IN  command(e, BitOr(LCD_DISPLAYCONTROL, e._displaycontrol))

\* the mask is overwritten with the one bit
blink_Overwrite(d) ==
    LET e == [d EXCEPT !._displaycontrol = LCD_BLINKON]
    IN  command(e, BitOr(LCD_DISPLAYCONTROL, e._displaycontrol))

blink(d) ==
    LET e == [d EXCEPT !._displaycontrol = BitOr(@, LCD_BLINKON)]
    IN  command(e, BitOr(LCD_DISPLAYCONTROL, e._displaycontrol))

scrollDisplayLeft(d) ==
    command(d, BitOr(BitOr(LCD_CURSORSHIFT, LCD_DISPLAYMOVE), LCD_MOVELEFT))

\* the direction bit of the other scroll
scrollDisplayRight_Left(d) ==
    command(d, BitOr(BitOr(LCD_CURSORSHIFT, LCD_DISPLAYMOVE), LCD_MOVELEFT))

scrollDisplayRight(d) ==
    command(d, BitOr(BitOr(LCD_CURSORSHIFT, LCD_DISPLAYMOVE), LCD_MOVERIGHT))

shiftLeft(d) ==
    LET e == [d EXCEPT !._displaymode = BitOr(@, LCD_ENTRYLEFT)]
    IN  command(e, BitOr(LCD_ENTRYMODESET, e._displaymode))

\* the bit is cleared in the field, the command carries the field as it was
shiftRight_Stale(d) ==
    LET e == [d EXCEPT !._displaymode = ClearBits(@, LCD_ENTRYLEFT)]
    IN  Res(e, command(d, BitOr(LCD_ENTRYMODESET, d._displaymode)).out, <<>>)

shiftRight(d) ==
    LET e == [d EXCEPT !._displaymode = ClearBits(@, LCD_ENTRYLEFT)]
    IN  command(e, BitOr(LCD_ENTRYMODESET, e._displaymode))

shiftIncrement(d) ==
    LET e == [d EXCEPT !._displaymode = BitOr(@, LCD_ENTRYSHIFTINCREMENT)]
    IN  command(e, BitOr(LCD_ENTRYMODESET, e._displaymode))

shiftDecrement(d) ==
    LET e == [d EXCEPT !._displaymode = ClearBits(@, LCD_ENTRYSHIFTINCREMENT)]
    IN  command(e, BitOr(LCD_ENTRYMODESET, e._displaymode))

\* the location taken as it comes
MaskLocation_None(location) == location

\* location &= 0x7
MaskLocation(location) == BitAnd(location, 7)

\* for (int i=0; i<8; i++) write(charmap[i])
RECURSIVE WriteRows(_, _, _)
WriteRows(d, charmap, i) ==
    IF i > 8 THEN <<>>
    ELSE write(d, charmap[i]).out \o WriteRows(d, charmap, i + 1)

\* the write pointer is left in CGRAM
createChar_NoReturn(d, location, charmap) ==
    Res(d,
        command(d, U8(BitOr(LCD_SETCGRAMADDR, MaskLocation(location) * 8))).out
        \o WriteRows(d, charmap, 1),
        <<>>)

createChar(d, location, charmap) ==
    Res(d,
        command(d, U8(BitOr(LCD_SETCGRAMADDR, MaskLocation(location) * 8))).out
        \o WriteRows(d, charmap, 1)
        \o command(d, LCD_SETDDRAMADDR).out,
        <<>>)

(***************************************************************************)
(* Construction.                                                           *)
(***************************************************************************)
\* _two_wire, the pins, and the three pinMode calls
InitPins(d, srdata, srclock, enable) ==
    LET e == [d EXCEPT !._two_wire = IF enable = TWO_WIRE THEN 1 ELSE 0,
                       !._srdata_pin = srdata,
                       !._srclock_pin = srclock,
                       !._enable_pin = IF enable = TWO_WIRE THEN srdata ELSE enable]
    IN  Res(e,
            << PinMode(e._srclock_pin, OUTPUT),
               PinMode(e._srdata_pin, OUTPUT),
               PinMode(e._enable_pin, OUTPUT) >>,
            <<>>)

\* two-line mode from one line on
InitFunction_FromOne(d, lines, font) ==
    LET n == IF lines >= 1 THEN LCD_2LINE ELSE LCD_1LINE
        f == BitOr(LCD_4BITMODE, n)
    IN  [d EXCEPT !._numlines = n,
                  !._displayfunction =
                      IF font # 0 THEN BitOr(f, LCD_5x10DOTS) ELSE BitOr(f, LCD_5x8DOTS)]

\* _numlines and _displayfunction
InitFunction(d, lines, font) ==
    LET n == IF lines > 1 THEN LCD_2LINE ELSE LCD_1LINE
        f == BitOr(LCD_4BITMODE, n)
    IN  [d EXCEPT !._numlines = n,
                  !._displayfunction =
                      IF font # 0 THEN BitOr(f, LCD_5x10DOTS) ELSE BitOr(f, LCD_5x8DOTS)]

\* the first wait as short as the second
InitHandshake_ShortWait(d) ==
    << DelayMicroseconds(50000) >>
    \o init4bits(d, BitOr(LCD_FUNCTIONSET, LCD_8BITMODE))
    \o << DelayMicroseconds(150) >>
    \o init4bits(d, BitOr(LCD_FUNCTIONSET, LCD_8BITMODE))
    \o << DelayMicroseconds(150) >>
    \o init4bits(d, BitOr(LCD_FUNCTIONSET, LCD_8BITMODE))
    \o init4bits(d, BitOr(LCD_FUNCTIONSET, LCD_4BITMODE))

\* the wait after power-up and the four nibble-only function sets
InitHandshake(d) ==
    << DelayMicroseconds(50000) >>
    \o init4bits(d, BitOr(LCD_FUNCTIONSET, LCD_8BITMODE))
    \o << DelayMicroseconds(4500) >>
    \o init4bits(d, BitOr(LCD_FUNCTIONSET, LCD_8BITMODE))
    \o << DelayMicroseconds(150) >>
    \o init4bits(d, BitOr(LCD_FUNCTIONSET, LCD_8BITMODE))
    \o init4bits(d, BitOr(LCD_FUNCTIONSET, LCD_4BITMODE))

\* the entry mode set before the display is cleared
InitConfigure_EntryFirst(d) ==
    LET fs == command(d, BitOr(LCD_FUNCTIONSET, d._displayfunction))
        d1 == [d EXCEPT !._displaycontrol =
                   BitOr(BitOr(LCD_DISPLAYON, LCD_CURSOROFF), LCD_BLINKOFF)]
        on == display(d1)
        d2 == [on.lcd EXCEPT !._displaymode =
                   BitOr(LCD_ENTRYLEFT, LCD_ENTRYSHIFTDECREMENT)]
        em == command(d2, BitOr(LCD_ENTRYMODESET, d2._displaymode))
        cl == clear(em.lcd)
        hm == home(cl.lcd)
    IN  Res(hm.lcd, fs.out \o on.out \o em.out \o cl.out \o hm.out, <<>>)

\* function set, display on, clear, entry mode, home
InitConfigure(d) ==
    LET fs == command(d, BitOr(LCD_FUNCTIONSET, d._displayfunction))
        d1 == [d EXCEPT !._displaycontrol =
                   BitOr(BitOr(LCD_DISPLAYON, LCD_CURSOROFF), LCD_BLINKOFF)]
        on == display(d1)
        cl == clear(on.lcd)
        d2 == [cl.lcd EXCEPT !._displaymode =
                   BitOr(LCD_ENTRYLEFT, LCD_ENTRYSHIFTDECREMENT)]
        em == command(d2, BitOr(LCD_ENTRYMODESET, d2._displaymode))
        hm == home(em.lcd)
    IN  Res(hm.lcd, fs.out \o on.out \o cl.out \o em.out \o hm.out, <<>>)

init(d, srdata, srclock, enable, lines, font) ==
    LET p == InitPins(d, srdata, srclock, enable)
        f == InitFunction(p.lcd, lines, font)
        c == InitConfigure(f)
    IN  Res(c.lcd, p.out \o InitHandshake(f) \o c.out, <<>>)

(***************************************************************************)
(* The arguments the operations are called with.                           *)
(***************************************************************************)
DataPins == {2}
ClockPins == {3}
EnablePins == {TWO_WIRE, 4}
Lines == {1, 2}
Fonts == {0, 1}
Cols == {0, 3}
Rows == {0, 1, 2, 5}
\* what an out-of-bounds read of row_offsets may return
Strays == {19, 64}
Bytes == {65, 9}
Locations == {1, 9}
Glyphs == { <<4, 14, 31, 0, 17, 10, 4, 255>> }

(***************************************************************************)
(* The state machine: the constructors, then the public operations.        *)
(***************************************************************************)
\* the object before its constructor has run: no field is read before init sets it
Unconstructed ==
    [_two_wire |-> 0, _srdata_pin |-> 0, _srclock_pin |-> 0, _enable_pin |-> 0,
     _numlines |-> 0, _displayfunction |-> 0, _displaycontrol |-> 0,
     _displaymode |-> 0]

Threads == {1, 2}

\* no caller is inside an operation; guarded says whether callers serialize
\* their operations with a lock
NoThreads(guarded) ==
    [guarded |-> guarded, holder |-> 0,
     began |-> [t \in Threads |-> FALSE],
     todo |-> [t \in Threads |-> << >>],
     shifted |-> [t \in Threads |-> 0]]

\* nothing shifted out, the enable pin not driven, nothing latched
IdleBus == [sr |-> << >>, en |-> << >>, latched |-> << >>]

Init ==
    /\ lcd = Unconstructed
    /\ trace = <<>>
    /\ calls = <<>>
    /\ threads = NoThreads(FALSE)
    /\ bus = IdleBus

constructed == Len(calls) >= 1

\* an operation may be called: the constructor has returned (and the model's
\* bound on the number of calls is not exhausted)
Ready == constructed /\ Len(calls) <= MaxOps

\* operation op, called with args, leaves r
Call(op, args, r) ==
    /\ lcd' = r.lcd
    /\ trace' = trace \o r.out
    /\ calls' = Append(calls, [op |-> op, args |-> args, from |-> Len(trace),
                               pre |-> lcd, ret |-> r.ret])
    /\ UNCHANGED <<threads, bus>>

\* ShiftRegLCD(srdata, srclock, enable): 1 line, 8 pixel font
Construct3 ==
    /\ ~constructed
    /\ \E sd \in DataPins, sc \in ClockPins, en \in EnablePins :
          Call("ShiftRegLCD", <<sd, sc, en, 1, 0>>, init(lcd, sd, sc, en, 1, 0))

\* ShiftRegLCD(srdata, srclock, enable, lines): 8 pixel font
Construct4 ==
    /\ ~constructed
    /\ \E sd \in DataPins, sc \in ClockPins, en \in EnablePins, ln \in Lines :
          Call("ShiftRegLCD", <<sd, sc, en, ln, 0>>, init(lcd, sd, sc, en, ln, 0))

\* ShiftRegLCD(srdata, srclock, enable, lines, font)
Construct5 ==
    /\ ~constructed
    /\ \E sd \in DataPins, sc \in ClockPins, en \in EnablePins,
          ln \in Lines, ft \in Fonts :
          Call("ShiftRegLCD", <<sd, sc, en, ln, ft>>, init(lcd, sd, sc, en, ln, ft))

Clear == Ready /\ Call("clear", <<>>, clear(lcd))
Home == Ready /\ Call("home", <<>>, home(lcd))

SetCursor ==
    /\ Ready
    /\ \E col \in Cols, row \in Rows :
          \E stray \in IF ClampRow(lcd, row) < 4 THEN {0} ELSE Strays :
             Call("setCursor", <<col, row>>, setCursor(lcd, col, row, stray))

NoDisplay == Ready /\ Call("noDisplay", <<>>, noDisplay(lcd))
Display == Ready /\ Call("display", <<>>, display(lcd))
NoCursor == Ready /\ Call("noCursor", <<>>, noCursor(lcd))
Cursor == Ready /\ Call("cursor", <<>>, cursor(lcd))
NoBlink == Ready /\ Call("noBlink", <<>>, noBlink(lcd))
Blink == Ready /\ Call("blink", <<>>, blink(lcd))
ScrollDisplayLeft == Ready /\ Call("scrollDisplayLeft", <<>>, scrollDisplayLeft(lcd))
ScrollDisplayRight == Ready /\ Call("scrollDisplayRight", <<>>, scrollDisplayRight(lcd))
ShiftLeft == Ready /\ Call("shiftLeft", <<>>, shiftLeft(lcd))
ShiftRight == Ready /\ Call("shiftRight", <<>>, shiftRight(lcd))
ShiftIncrement == Ready /\ Call("shiftIncrement", <<>>, shiftIncrement(lcd))
ShiftDecrement == Ready /\ Call("shiftDecrement", <<>>, shiftDecrement(lcd))

CreateChar ==
    /\ Ready
    /\ \E location \in Locations, charmap \in Glyphs :
          Call("createChar", <<location, charmap>>, createChar(lcd, location, charmap))

Command ==
    /\ Ready
    /\ \E value \in Bytes : Call("command", <<value>>, command(lcd, value))

Write ==
    /\ Ready
    /\ \E value \in Bytes : Call("write", <<value>>, write(lcd, value))

Next ==
    \/ Construct3 \/ Construct4 \/ Construct5
    \/ Clear \/ Home \/ SetCursor
    \/ NoDisplay \/ Display \/ NoCursor \/ Cursor \/ NoBlink \/ Blink
    \/ ScrollDisplayLeft \/ ScrollDisplayRight
    \/ ShiftLeft \/ ShiftRight \/ ShiftIncrement \/ ShiftDecrement
    \/ CreateChar \/ Command \/ Write

Spec == Init /\ [][Next]_vars

(***************************************************************************)
(* send on its own, for every byte and both modes, on a constructed driver. *)
(***************************************************************************)
AllBytes == 0 .. 255

SendAny ==
    /\ Len(calls) = 1
    /\ \E value \in AllBytes, mode \in {LOW, HIGH} :
          Call("send", <<value, mode>>, Res(lcd, send(lcd, value, mode), <<>>))

NextSend == Construct5 \/ SendAny

SpecSend == Init /\ [][NextSend]_vars

(***************************************************************************)
(* What an observer of the pins sees.                                      *)
(***************************************************************************)
\* the primitive calls made by the i-th call
OpTrace(i) ==
    SubSeq(trace, calls[i].from + 1,
           IF i < Len(calls) THEN calls[i + 1].from ELSE Len(trace))

\* the driver as the i-th call left it
PostOf(i) == IF i < Len(calls) THEN calls[i + 1].pre ELSE lcd

IsShift(e) == e.call = "shiftOut"
IsFrame(e) == e.call = "shiftOut" /\ e.arg # 0
IsSettle(e) == e.call = "delayMicroseconds" /\ e.arg >= 40

Args(evs) == [k \in 1 .. Len(evs) |-> evs[k].arg]

\* the bytes shifted out, and those of them that are frames
Shifts(tr) == Args(SelectSeq(tr, IsShift))
Frames(tr) == Args(SelectSeq(tr, IsFrame))

\* the fields of a frame: D7..D4 on bits 6..3, register select on bit 2
Nibble(f) == (f \div 8) % 16
RSBit(f) == (f \div 4) % 2

\* the frames of tr, grouped into transmissions: a transmission ends with the
\* settle delay (>= 40 us) that follows its last enable pulse
IsMark(e) == IsFrame(e) \/ IsSettle(e)

\* the number of frames from the k-th mark up to the next settle delay
RECURSIVE RunLen(_, _)
RunLen(marks, k) ==
    IF k > Len(marks) \/ IsSettle(marks[k]) THEN 0 ELSE 1 + RunLen(marks, k + 1)

Transmissions(tr) ==
    LET marks == SelectSeq(tr, IsMark)
        idx == [k \in 1 .. Len(marks) |-> k]
        Starts(k) == IsFrame(marks[k]) /\ (k = 1 \/ IsSettle(marks[k - 1]))
        starts == SelectSeq(idx, Starts)
    IN  [j \in 1 .. Len(starts) |->
            [i \in 1 .. RunLen(marks, starts[j]) |-> marks[starts[j] + i - 1].arg]]

\* the byte a transmission carries: two frames give both nibbles, one frame
\* gives the upper nibble alone
ByteOf(g) ==
    IF Len(g) = 2 THEN Nibble(g[1]) * 16 + Nibble(g[2]) ELSE Nibble(g[1]) * 16

\* a two-frame transmission in command mode / in data mode
IsCommand(g) == Len(g) = 2 /\ RSBit(g[1]) = 0 /\ RSBit(g[2]) = 0
IsData(g) == Len(g) = 2 /\ RSBit(g[1]) = 1 /\ RSBit(g[2]) = 1

(***************************************************************************)
(* C1. send(v, mode), for every byte v and both modes, shifts out exactly   *)
(* two non-zero frames; bits 6..3 of the first are v's high nibble, bits    *)
(* 6..3 of the second are v's low nibble, so that together they give v      *)
(* back; bit 2 of both frames is 1 for data and 0 for a command.            *)
(***************************************************************************)
C1_SendFraming ==
    \A i \in 1 .. Len(calls) :
        calls[i].op = "send" =>
            LET v == calls[i].args[1]
                mode == calls[i].args[2]
                fr == Frames(OpTrace(i))
            IN  /\ Len(fr) = 2
                /\ Nibble(fr[1]) = v \div 16
                /\ Nibble(fr[2]) = v % 16
                /\ Nibble(fr[1]) * 16 + Nibble(fr[2]) = v
                /\ RSBit(fr[1]) = (IF mode = HIGH THEN 1 ELSE 0)
                /\ RSBit(fr[2]) = (IF mode = HIGH THEN 1 ELSE 0)

\* send(0xA5, data) has run on a two-wire driver
C1_Witness ==
    /\ Len(calls) = 2
    /\ calls[2].op = "send"
    /\ calls[2].args = <<165, HIGH>>
    /\ lcd._two_wire = 1
    /\ Frames(OpTrace(2)) = <<212, 172>>

(***************************************************************************)
(* The commands the controller has been given: the transmissions with the  *)
(* register-select bit clear, as bytes.                                    *)
(***************************************************************************)
IsCommandGroup(g) == \A k \in 1 .. Len(g) : RSBit(g[k]) = 0

CommandBytes(tr) ==
    LET cs == SelectSeq(Transmissions(tr), IsCommandGroup)
    IN  [k \in 1 .. Len(cs) |-> ByteOf(cs[k])]

\* the last of the bytes bs that lies in lo..hi, or -1 when there is none
RECURSIVE LastIn(_, _, _, _)
LastIn(bs, k, lo, hi) ==
    IF k = 0 THEN -1
    ELSE IF lo <= bs[k] /\ bs[k] <= hi THEN bs[k]
    ELSE LastIn(bs, k - 1, lo, hi)

\* the most recent entry-mode-set, display-control and function-set command
LastEntryMode(bs) == LastIn(bs, Len(bs), 4, 7)
LastDisplayControl(bs) == LastIn(bs, Len(bs), 8, 15)
LastFunctionSet(bs) == LastIn(bs, Len(bs), 32, 63)

MasksReflectLastCommands ==
    LET bs == CommandBytes(trace)
    IN  /\ LastDisplayControl(bs) = LCD_DISPLAYCONTROL + lcd._displaycontrol
        /\ LastEntryMode(bs) = LCD_ENTRYMODESET + lcd._displaymode
        /\ LastFunctionSet(bs) = LCD_FUNCTIONSET + lcd._displayfunction

\* the i-th call is command(byte) with an entry-mode-set, display-control or
\* function-set byte
IsRawModeCommand(i) ==
    /\ calls[i].op = "command"
    /\ \/ calls[i].args[1] \in 4 .. 15
       \/ calls[i].args[1] \in 32 .. 63

(***************************************************************************)
(* C2, as claimed. After construction and any sequence of public           *)
(* operations, command(byte) among them, the last display-control command  *)
(* transmitted is LCD_DISPLAYCONTROL | _displaycontrol, the last           *)
(* entry-mode-set command is LCD_ENTRYMODESET | _displaymode and the last  *)
(* function-set command is LCD_FUNCTIONSET | _displayfunction.             *)
(***************************************************************************)
C2_AsClaimed == constructed => MasksReflectLastCommands

(***************************************************************************)
(* C2, amended. The same, after any sequence of public operations in which *)
(* command(byte) is never called with an entry-mode-set (0x04..0x07),      *)
(* display-control (0x08..0x0F) or function-set (0x20..0x3F) byte.         *)
(***************************************************************************)
C2_MasksReflectLastCommands ==
    (constructed /\ \A i \in 1 .. Len(calls) : ~IsRawModeCommand(i))
        => MasksReflectLastCommands

\* a raw command(0x41) and shiftRight have run
C2_Witness ==
    /\ Len(calls) = 3
    /\ calls[2].op = "command" /\ calls[2].args = <<65>>
    /\ calls[3].op = "shiftRight"
    /\ lcd._displaycontrol = LCD_DISPLAYON
    /\ lcd._displaymode = 0
    /\ LastDisplayControl(CommandBytes(trace)) = 12
    /\ LastEntryMode(CommandBytes(trace)) = 4

(***************************************************************************)
(* The constructor on its own, for every lines argument.                   *)
(***************************************************************************)
FontBytes == {0, 1, 4, 8, 255}

ConstructAny ==
    /\ ~constructed
    /\ \E sd \in DataPins, sc \in ClockPins, en \in EnablePins,
          ln \in AllBytes, ft \in FontBytes :
          Call("ShiftRegLCD", <<sd, sc, en, ln, ft>>, init(lcd, sd, sc, en, ln, ft))

SpecInit == Init /\ [][ConstructAny]_vars

\* the arguments the constructor was called with
LinesArg == calls[1].args[4]
FontArg == calls[1].args[5]
TwoWireArg == calls[1].args[3] = TWO_WIRE

(***************************************************************************)
(* C3. For every lines and font argument, after init the cached            *)
(* function-set mask is LCD_4BITMODE | (LCD_2LINE if lines > 1 else        *)
(* LCD_1LINE) | (LCD_5x10DOTS if font != 0 else LCD_5x8DOTS), and the last *)
(* function-set command transmitted during init is LCD_FUNCTIONSET | that  *)
(* mask; lines = 2, font = 0 gives 4-bit | 2-line | 5x8.                   *)
(***************************************************************************)
C3_FunctionSetAfterInit ==
    constructed =>
        LET mask == BitOr(LCD_4BITMODE,
                          BitOr(IF LinesArg > 1 THEN LCD_2LINE ELSE LCD_1LINE,
                                IF FontArg # 0 THEN LCD_5x10DOTS ELSE LCD_5x8DOTS))
        IN  /\ PostOf(1)._displayfunction = mask
            /\ LastFunctionSet(CommandBytes(OpTrace(1))) = BitOr(LCD_FUNCTIONSET, mask)
            /\ (LinesArg = 2 /\ FontArg = 0 => PostOf(1)._displayfunction = 8)

\* the constructor has run with lines = 2, font = 0
C3_Witness ==
    /\ constructed
    /\ LinesArg = 2 /\ FontArg = 0
    /\ lcd._displayfunction = 8
    /\ LastFunctionSet(CommandBytes(trace)) = 40

(***************************************************************************)
(* Positions and delays in a sequence of primitive calls.                  *)
(***************************************************************************)
\* the indices of tr at which Test holds, in order
Positions(tr, Test(_)) ==
    LET Holds(k) == Test(tr[k])
    IN  SelectSeq([k \in 1 .. Len(tr) |-> k], Holds)

IsFall(e) == e.call = "digitalWrite" /\ e.arg = LOW

\* the first index after p at which Test holds, or Len(tr) + 1
NextAfter(tr, p, Test(_)) ==
    LET later == {k \in p + 1 .. Len(tr) : Test(tr[k])}
    IN  IF later = {} THEN Len(tr) + 1
        ELSE CHOOSE k \in later : \A j \in later : k <= j

\* the microseconds of delay requested by tr[a .. b]
RECURSIVE DelaySum(_, _, _)
DelaySum(tr, a, b) ==
    IF a > b THEN 0
    ELSE (IF tr[a].call = "delayMicroseconds" THEN tr[a].arg ELSE 0)
         + DelaySum(tr, a + 1, b)

\* the delay requested between the end of the enable pulse that follows the
\* frame at index p and the next shift-out
SettleAfter(tr, p) ==
    DelaySum(tr, NextAfter(tr, p, IsFall) + 1, NextAfter(tr, p, IsShift) - 1)

(***************************************************************************)
(* C4. init starts with: a delay of at least 50000 us; a nibble-only       *)
(* function-set|8-bit, then at least 4500 us of delay before the next      *)
(* transmission; a second one, then at least 150 us; a third one; then one *)
(* nibble-only function-set|4-bit. These four are the only nibble-only     *)
(* transmissions, they precede every two-frame send, and none carries the  *)
(* register-select bit.                                                    *)
(***************************************************************************)
C4_Handshake ==
    constructed =>
        LET tr == OpTrace(1)
            tx == Transmissions(tr)
            fp == Positions(tr, IsFrame)
            sp == Positions(tr, IsShift)
        IN  /\ Len(tx) >= 4
            /\ {k \in 1 .. Len(tx) : Len(tx[k]) = 1} = 1 .. 4
            /\ \A k \in 1 .. 3 :
                  /\ Nibble(tx[k][1]) * 16 = BitOr(LCD_FUNCTIONSET, LCD_8BITMODE)
                  /\ RSBit(tx[k][1]) = 0
            /\ Nibble(tx[4][1]) * 16 = BitOr(LCD_FUNCTIONSET, LCD_4BITMODE)
            /\ RSBit(tx[4][1]) = 0
            /\ DelaySum(tr, 1, sp[1] - 1) >= 50000
            /\ SettleAfter(tr, fp[1]) >= 4500
            /\ SettleAfter(tr, fp[2]) >= 150

\* a two-wire driver has been constructed: four single frames, then pairs
C4_Witness ==
    /\ Len(calls) = 1
    /\ TwoWireArg
    /\ Frames(trace)[1] = 152 /\ Frames(trace)[4] = 144
    /\ Len(Transmissions(trace)[4]) = 1
    /\ Len(Transmissions(trace)[5]) = 2

(***************************************************************************)
(* C5. After the switch to 4 bits init transmits exactly these commands,   *)
(* each as two frames, in this order: function set with the line/font      *)
(* mask; display control with display on, cursor off, blink off; clear     *)
(* display; entry mode set with left-to-right entry and shift decrement;   *)
(* return home. It leaves _displaycontrol = LCD_DISPLAYON and              *)
(* _displaymode = LCD_ENTRYLEFT | LCD_ENTRYSHIFTDECREMENT.                 *)
(***************************************************************************)
C5_Configuration ==
    constructed =>
        LET tx == Transmissions(OpTrace(1))
            mask == BitOr(LCD_4BITMODE,
                          BitOr(IF LinesArg > 1 THEN LCD_2LINE ELSE LCD_1LINE,
                                IF FontArg # 0 THEN LCD_5x10DOTS ELSE LCD_5x8DOTS))
        IN  /\ Len(tx) = 9
            /\ \A k \in 5 .. 9 : IsCommand(tx[k])
            /\ << ByteOf(tx[5]), ByteOf(tx[6]), ByteOf(tx[7]), ByteOf(tx[8]), ByteOf(tx[9]) >>
                  = << BitOr(LCD_FUNCTIONSET, mask),
                       BitOr(LCD_DISPLAYCONTROL, LCD_DISPLAYON),
                       LCD_CLEARDISPLAY,
                       BitOr(LCD_ENTRYMODESET, LCD_ENTRYLEFT),
                       LCD_RETURNHOME >>
            /\ PostOf(1)._displaycontrol = LCD_DISPLAYON
            /\ PostOf(1)._displaymode = BitOr(LCD_ENTRYLEFT, LCD_ENTRYSHIFTDECREMENT)

\* a two-line, 5x10 driver has been constructed
C5_Witness ==
    /\ Len(calls) = 1
    /\ LinesArg = 2 /\ FontArg = 1
    /\ CommandBytes(trace) = << 48, 48, 48, 32, 44, 12, 1, 6, 2 >>
    /\ lcd._displaycontrol = 4 /\ lcd._displaymode = 2

(***************************************************************************)
(* C6. On a driver constructed with enable = TWO_WIRE every frame, of send *)
(* and of init4bits, is shifted out right after a shift-out of 0x00: the   *)
(* shift sequence is 0x00, frame, 0x00, frame, ...  On a driver with an    *)
(* enable pin of its own no 0x00 is ever shifted out.                      *)
(***************************************************************************)
C6_ZeroBeforeEveryFrame ==
    constructed =>
        LET sh == Shifts(trace)
        IN  IF TwoWireArg
            THEN /\ Len(sh) % 2 = 0
                 /\ \A k \in 1 .. Len(sh) : (sh[k] = 0) <=> (k % 2 = 1)
            ELSE \A k \in 1 .. Len(sh) : sh[k] # 0

\* write('A') has run on a two-wire driver
C6_Witness ==
    /\ Len(calls) = 2
    /\ TwoWireArg
    /\ calls[2].op = "write" /\ calls[2].args = <<65>>
    /\ Shifts(OpTrace(2)) = << 0, 164, 0, 140 >>
    /\ Shifts(OpTrace(1))[1] = 0 /\ Shifts(OpTrace(1))[2] = 152

(***************************************************************************)
(* C7. For every col and every row greater than the last row of the        *)
(* configured line count (1 or 2 lines), setCursor(col, row) sends the     *)
(* set-DDRAM-address command of row numLines - 1: on a two-line driver     *)
(* setCursor(0, 5) sends what setCursor(0, 1) sends, address 0x40.         *)
(***************************************************************************)
NumLines == IF LinesArg > 1 THEN 2 ELSE 1

C7_ClampToLastRow ==
    \A i \in 2 .. Len(calls) :
        (calls[i].op = "setCursor" /\ calls[i].args[2] > NumLines - 1) =>
            CommandBytes(OpTrace(i))
                = << U8(BitOr(LCD_SETDDRAMADDR, calls[i].args[1] + row_offsets[NumLines])) >>

(***************************************************************************)
(* Sequences of operations: every public operation, up to MaxSeq calls in  *)
(* a row on a freshly constructed driver.                                  *)
(***************************************************************************)
MaxSeq == 3

SeqReady == constructed /\ Len(calls) <= MaxSeq

SeqClear == SeqReady /\ Call("clear", <<>>, clear(lcd))
SeqHome == SeqReady /\ Call("home", <<>>, home(lcd))
SeqSetCursor == SeqReady /\ Call("setCursor", <<0, 0>>, setCursor(lcd, 0, 0, 0))
SeqNoDisplay == SeqReady /\ Call("noDisplay", <<>>, noDisplay(lcd))
SeqDisplay == SeqReady /\ Call("display", <<>>, display(lcd))
SeqNoCursor == SeqReady /\ Call("noCursor", <<>>, noCursor(lcd))
SeqCursor == SeqReady /\ Call("cursor", <<>>, cursor(lcd))
SeqNoBlink == SeqReady /\ Call("noBlink", <<>>, noBlink(lcd))
SeqBlink == SeqReady /\ Call("blink", <<>>, blink(lcd))
SeqScrollDisplayLeft == SeqReady /\ Call("scrollDisplayLeft", <<>>, scrollDisplayLeft(lcd))
SeqScrollDisplayRight == SeqReady /\ Call("scrollDisplayRight", <<>>, scrollDisplayRight(lcd))
SeqShiftLeft == SeqReady /\ Call("shiftLeft", <<>>, shiftLeft(lcd))
SeqShiftRight == SeqReady /\ Call("shiftRight", <<>>, shiftRight(lcd))
SeqShiftIncrement == SeqReady /\ Call("shiftIncrement", <<>>, shiftIncrement(lcd))
SeqShiftDecrement == SeqReady /\ Call("shiftDecrement", <<>>, shiftDecrement(lcd))
SeqCreateChar ==
    SeqReady /\ \E charmap \in Glyphs : Call("createChar", <<1, charmap>>, createChar(lcd, 1, charmap))
SeqCommand == SeqReady /\ Call("command", <<65>>, command(lcd, 65))
SeqWrite == SeqReady /\ Call("write", <<65>>, write(lcd, 65))

NextSeq ==
    \/ Construct3
    \/ SeqClear \/ SeqHome \/ SeqSetCursor
    \/ SeqNoDisplay \/ SeqDisplay \/ SeqNoCursor \/ SeqCursor \/ SeqNoBlink \/ SeqBlink
    \/ SeqScrollDisplayLeft \/ SeqScrollDisplayRight
    \/ SeqShiftLeft \/ SeqShiftRight \/ SeqShiftIncrement \/ SeqShiftDecrement
    \/ SeqCreateChar \/ SeqCommand \/ SeqWrite

SpecSeq == Init /\ [][NextSeq]_vars

\* the transmissions of the calls from the i-th on, call by call
RECURSIVE TransmissionsByCall(_)
TransmissionsByCall(i) ==
    IF i > Len(calls) THEN <<>>
    ELSE Transmissions(OpTrace(i)) \o TransmissionsByCall(i + 1)

\* the primitive calls made by the calls i .. j
SpanTrace(i, j) ==
    SubSeq(trace, calls[i].from + 1,
           IF j < Len(calls) THEN calls[j + 1].from ELSE Len(trace))

(***************************************************************************)
(* C8. The frames of operations called back to back are, in call order,    *)
(* the complete frame pairs of each operation: every operation emits whole *)
(* pairs, and the stream as a whole splits into the same pairs. In         *)
(* particular clear(); setCursor(0,0); write('A') emits the command pair   *)
(* of clear-display, the command pair of set-DDRAM-address(0), then the    *)
(* data pair of 0x41.                                                      *)
(***************************************************************************)
C8_WholePairsInCallOrder ==
    constructed =>
        /\ \A i \in 2 .. Len(calls) :
              LET tx == Transmissions(OpTrace(i))
              IN  /\ Len(tx) >= 1
                  /\ \A k \in 1 .. Len(tx) : IsCommand(tx[k]) \/ IsData(tx[k])
        /\ Transmissions(trace) = TransmissionsByCall(1)
        /\ \A i \in 2 .. Len(calls) - 2 :
              ( /\ calls[i].op = "clear"
                /\ calls[i + 1].op = "setCursor" /\ calls[i + 1].args = <<0, 0>>
                /\ calls[i + 2].op = "write" /\ calls[i + 2].args = <<65>> )
              => LET tx == Transmissions(SpanTrace(i, i + 2))
                 IN  /\ Len(tx) = 3
                     /\ IsCommand(tx[1]) /\ ByteOf(tx[1]) = LCD_CLEARDISPLAY
                     /\ IsCommand(tx[2]) /\ ByteOf(tx[2]) = LCD_SETDDRAMADDR
                     /\ IsData(tx[3]) /\ ByteOf(tx[3]) = 65

\* clear(); setCursor(0,0); write('A') have run
C8_Witness ==
    /\ Len(calls) = 4
    /\ calls[2].op = "clear"
    /\ calls[3].op = "setCursor" /\ calls[3].args = <<0, 0>>
    /\ calls[4].op = "write" /\ calls[4].args = <<65>>
    /\ Frames(SpanTrace(2, 4)) = << 128, 136, 192, 128, 164, 140 >>

(***************************************************************************)
(* createChar on its own, for every location, on a constructed driver.     *)
(***************************************************************************)
AllGlyphs == Glyphs \cup { <<0, 1, 2, 4, 8, 16, 128, 170>> }

CreateCharAny ==
    /\ Len(calls) = 1
    /\ \E location \in AllBytes, charmap \in AllGlyphs :
          Call("createChar", <<location, charmap>>, createChar(lcd, location, charmap))

NextChar == Construct5 \/ CreateCharAny

SpecChar == Init /\ [][NextChar]_vars

(***************************************************************************)
(* C9. createChar(location, glyph) transmits exactly ten bytes: the        *)
(* command set-CGRAM-address with address (location & 7) << 3, the eight   *)
(* rows glyph[0] .. glyph[7] as data in index order, the command           *)
(* set-DDRAM-address with address 0. Nothing else is transmitted and no    *)
(* field of the driver changes.                                            *)
(***************************************************************************)
C9_CreateCharTransmissions ==
    \A i \in 2 .. Len(calls) :
        calls[i].op = "createChar" =>
            LET location == calls[i].args[1]
                glyph == calls[i].args[2]
                tx == Transmissions(OpTrace(i))
            IN  /\ Len(tx) = 10
                /\ Len(Frames(OpTrace(i))) = 20
                /\ IsCommand(tx[1])
                /\ ByteOf(tx[1]) = LCD_SETCGRAMADDR + (location % 8) * 8
                /\ \A k \in 1 .. 8 : IsData(tx[k + 1]) /\ ByteOf(tx[k + 1]) = glyph[k]
                /\ IsCommand(tx[10])
                /\ ByteOf(tx[10]) = LCD_SETDDRAMADDR
                /\ PostOf(i) = calls[i].pre

\* createChar(13, glyph) has run
C9_Witness ==
    /\ Len(calls) = 2
    /\ calls[2].op = "createChar"
    /\ calls[2].args[1] = 13
    /\ CommandBytes(OpTrace(2)) = << 104, 128 >>
    /\ Len(Transmissions(OpTrace(2))) = 10

(***************************************************************************)
(* C10. For every location in 0..255 and every glyph,                      *)
(* createChar(location, glyph) makes the primitive calls and leaves the    *)
(* driver that createChar(location & 7, glyph) makes and leaves; location  *)
(* 9 behaves as location 1.                                                *)
(***************************************************************************)
C10_LocationMasked ==
    \A i \in 2 .. Len(calls) :
        calls[i].op = "createChar" =>
            LET masked == createChar(calls[i].pre, calls[i].args[1] % 8, calls[i].args[2])
            IN  /\ OpTrace(i) = masked.out
                /\ PostOf(i) = masked.lcd
                /\ calls[i].ret = masked.ret

\* createChar(9, glyph) has run and did what createChar(1, glyph) does
C10_Witness ==
    /\ Len(calls) = 2
    /\ calls[2].op = "createChar"
    /\ calls[2].args[1] = 9
    /\ OpTrace(2) = createChar(calls[2].pre, 1, calls[2].args[2]).out
    /\ CommandBytes(OpTrace(2)) = << 72, 128 >>

(***************************************************************************)
(* The mode-setting operations: the field each works on, its bit, whether  *)
(* it sets or clears it, and the opcode of the command it sends.           *)
(***************************************************************************)
ControlOps == {"display", "noDisplay", "cursor", "noCursor", "blink", "noBlink"}
EntryOps == {"shiftLeft", "shiftRight", "shiftIncrement", "shiftDecrement"}
ModeOps == ControlOps \cup EntryOps

BitOfOp(op) ==
    CASE op \in {"display", "noDisplay"} -> LCD_DISPLAYON
      [] op \in {"cursor", "noCursor"} -> LCD_CURSORON
      [] op \in {"blink", "noBlink"} -> LCD_BLINKON
      [] op \in {"shiftLeft", "shiftRight"} -> LCD_ENTRYLEFT
      [] op \in {"shiftIncrement", "shiftDecrement"} -> LCD_ENTRYSHIFTINCREMENT

SetsBit(op) == op \in {"display", "cursor", "blink", "shiftLeft", "shiftIncrement"}

\* mask with the single bit b set / cleared, by arithmetic
HasBit(mask, b) == (mask \div b) % 2 = 1
WithBit(mask, b) == IF HasBit(mask, b) THEN mask ELSE mask + b
WithoutBit(mask, b) == IF HasBit(mask, b) THEN mask - b ELSE mask

\* the mask op works on, as found in driver d, and as op must leave it
MaskOf(op, d) == IF op \in ControlOps THEN d._displaycontrol ELSE d._displaymode
MaskAfter(op, d) ==
    IF SetsBit(op) THEN WithBit(MaskOf(op, d), BitOfOp(op))
    ELSE WithoutBit(MaskOf(op, d), BitOfOp(op))

\* driver d with the mask op works on replaced by m, everything else as it was
WithMask(op, d, m) ==
    IF op \in ControlOps THEN [d EXCEPT !._displaycontrol = m]
    ELSE [d EXCEPT !._displaymode = m]

OpcodeOf(op) == IF op \in ControlOps THEN LCD_DISPLAYCONTROL ELSE LCD_ENTRYMODESET

(***************************************************************************)
(* C11. Each mode-setting operation (display, noDisplay, cursor, noCursor, *)
(* blink, noBlink, shiftLeft, shiftRight, shiftIncrement, shiftDecrement), *)
(* called twice in a row from any reachable state, makes the same single   *)
(* command transmission both times, and the cached masks after the second  *)
(* call are those after the first.                                         *)
(***************************************************************************)
C11_ModeOpsIdempotent ==
    \A i \in 2 .. Len(calls) - 1 :
        (calls[i].op \in ModeOps /\ calls[i + 1].op = calls[i].op) =>
            /\ OpTrace(i + 1) = OpTrace(i)
            /\ Len(Transmissions(OpTrace(i))) = 1
            /\ CommandBytes(OpTrace(i + 1)) = CommandBytes(OpTrace(i))
            /\ PostOf(i + 1) = PostOf(i)

\* noDisplay(); blink(); blink() have run
C11_Witness ==
    /\ Len(calls) = 4
    /\ calls[2].op = "noDisplay"
    /\ calls[3].op = "blink" /\ calls[4].op = "blink"
    /\ CommandBytes(OpTrace(3)) = << 9 >>
    /\ CommandBytes(OpTrace(4)) = << 9 >>
    /\ calls[4].pre._displaycontrol = 1 /\ lcd._displaycontrol = 1

(***************************************************************************)
(* C12. write(b) sends b as exactly one data-mode byte (one frame pair     *)
(* with the register-select bit set) and returns 1.                        *)
(***************************************************************************)
C12_WriteReturnsOne ==
    \A i \in 2 .. Len(calls) :
        calls[i].op = "write" =>
            LET tx == Transmissions(OpTrace(i))
            IN  /\ Len(tx) = 1
                /\ IsData(tx[1])
                /\ ByteOf(tx[1]) = calls[i].args[1]
                /\ calls[i].ret = << 1 >>

(***************************************************************************)
(* C13. Each of display/noDisplay, cursor/noCursor, blink/noBlink sets or  *)
(* clears exactly its bit of the display-control mask, each of             *)
(* shiftLeft/shiftRight, shiftIncrement/shiftDecrement exactly its bit of  *)
(* the entry-mode mask; the other bits of that mask and every other field  *)
(* stay as they were, and the operation transmits exactly one command      *)
(* byte: the opcode OR-ed with the whole updated mask.                     *)
(***************************************************************************)
C13_OneBitFullMaskResent ==
    \A i \in 2 .. Len(calls) :
        calls[i].op \in ModeOps =>
            LET op == calls[i].op
                m == MaskAfter(op, calls[i].pre)
            IN  /\ PostOf(i) = WithMask(op, calls[i].pre, m)
                /\ Len(Transmissions(OpTrace(i))) = 1
                /\ CommandBytes(OpTrace(i)) = << OpcodeOf(op) + m >>

\* cursor(); blink(); noCursor() have run: the blink and display bits survive
C13_Witness ==
    /\ Len(calls) = 4
    /\ calls[2].op = "cursor" /\ calls[3].op = "blink" /\ calls[4].op = "noCursor"
    /\ calls[4].pre._displaycontrol = 7
    /\ lcd._displaycontrol = 5
    /\ CommandBytes(OpTrace(4)) = << 13 >>

(***************************************************************************)
(* C14. scrollDisplayLeft and scrollDisplayRight each transmit exactly one *)
(* cursor/display-shift command whose display-move bit is set and whose    *)
(* direction bit is that of the call, and leave the display-function,      *)
(* display-control and entry-mode masks as they were; clear, home,         *)
(* setCursor, write, command and createChar leave them as they were too.   *)
(***************************************************************************)
ScrollOps == {"scrollDisplayLeft", "scrollDisplayRight"}
MaskKeepingOps ==
    ScrollOps \cup {"clear", "home", "setCursor", "write", "command", "createChar"}

Masks(d) == << d._displayfunction, d._displaycontrol, d._displaymode >>

C14_ScrollAndOthersKeepMasks ==
    \A i \in 2 .. Len(calls) :
        /\ calls[i].op \in MaskKeepingOps => Masks(PostOf(i)) = Masks(calls[i].pre)
        /\ calls[i].op \in ScrollOps =>
              LET bs == CommandBytes(OpTrace(i))
              IN  /\ Len(Transmissions(OpTrace(i))) = 1
                  /\ Len(bs) = 1
                  /\ bs[1] \div 16 = 1
                  /\ HasBit(bs[1], LCD_DISPLAYMOVE)
                  /\ HasBit(bs[1], LCD_MOVERIGHT) <=> calls[i].op = "scrollDisplayRight"
                  /\ bs[1] % 4 = 0

\* scrollDisplayLeft(); scrollDisplayRight() have run
C14_Witness ==
    /\ Len(calls) = 3
    /\ calls[2].op = "scrollDisplayLeft" /\ calls[3].op = "scrollDisplayRight"
    /\ CommandBytes(OpTrace(2)) = << 24 >>
    /\ CommandBytes(OpTrace(3)) = << 28 >>
    /\ Masks(lcd) = Masks(calls[2].pre)

(***************************************************************************)
(* C15. Every byte transmission is followed, after its second enable pulse *)
(* and before any later shift-out, by at least 40 us of requested delay;   *)
(* clear() and home() request at least 2000 us more after that, before     *)
(* they return, hence before the first shift-out of any following          *)
(* operation.                                                              *)
(***************************************************************************)
\* the indices in tr of the second frames of its byte transmissions, tr
\* starting with single nibble-only frames
SecondFrames(tr, single) ==
    LET fp == Positions(tr, IsFrame)
    IN  {fp[k] : k \in {j \in single + 1 .. Len(fp) : (j - single) % 2 = 0}}

C15_SettleDelays ==
    \* within each call, whose end precedes the next call's first shift-out;
    \* stated of the call that has just returned, which every call once is
    \A i \in {Len(calls)} \ {0} :
        LET tr == OpTrace(i)
            fp == Positions(tr, IsFrame)
            sf == SecondFrames(tr, IF i = 1 THEN 4 ELSE 0)
        IN  /\ \A p \in sf : SettleAfter(tr, p) >= 40
            /\ calls[i].op \in {"clear", "home"} =>
                  /\ sf # {}
                  /\ \A p \in sf : SettleAfter(tr, p) >= 40 + 2000
            \* the clear() and home() that init calls: its third and fifth bytes
            /\ i = 1 =>
                  /\ Len(fp) = 14
                  /\ SettleAfter(tr, fp[10]) >= 40 + 2000
                  /\ SettleAfter(tr, fp[14]) >= 40 + 2000

\* clear(); write(..) have run: 2040 us lie between the end of clear's second
\* pulse and the first shift-out of write
C15_Witness ==
    /\ Len(calls) = 3
    /\ calls[2].op = "clear" /\ calls[3].op = "write"
    /\ LET fp == Positions(SpanTrace(2, 3), IsFrame)
       IN  /\ Len(fp) = 4
           /\ SettleAfter(SpanTrace(2, 3), fp[2]) = 2040
           /\ SettleAfter(SpanTrace(2, 3), fp[4]) = 40

(***************************************************************************)
(* The primitive calls of send, frame by frame.                            *)
(***************************************************************************)
\* tr is the calls of pattern pat, a delay of pat standing for at least as long
Follows(tr, pat) ==
    /\ Len(tr) = Len(pat)
    /\ \A k \in 1 .. Len(pat) :
          IF pat[k].call = "delayMicroseconds"
          THEN tr[k].call = "delayMicroseconds" /\ tr[k].arg >= pat[k].arg
          ELSE tr[k] = pat[k]

\* (two-wire only) shift out 0x00; then, when lowFirst, drive enable low; shift
\* out the frame; drive enable high; delay >= 1 us; drive enable low
FrameCalls(d, frame, lowFirst) ==
    (IF d._two_wire # 0
     THEN << [call |-> "shiftOut", pin |-> d._srdata_pin, arg |-> 0] >> ELSE << >>)
    \o (IF lowFirst
        THEN << [call |-> "digitalWrite", pin |-> d._enable_pin, arg |-> LOW] >>
        ELSE << >>)
    \o << [call |-> "shiftOut", pin |-> d._srdata_pin, arg |-> frame],
          [call |-> "digitalWrite", pin |-> d._enable_pin, arg |-> HIGH],
          [call |-> "delayMicroseconds", pin |-> 0, arg |-> 1],
          [call |-> "digitalWrite", pin |-> d._enable_pin, arg |-> LOW] >>

\* the two frames of send(value, mode), by the bits of value
FrameOf(value, mode, upper) ==
    (IF mode # 0 THEN 4 ELSE 0) + 128
    + 8 * (IF upper THEN value \div 16 ELSE value % 16)

\* the calls of send(value, mode) on d: the upper frame, the lower frame, the
\* settle delay; lowAgain says whether the lower frame starts by driving the
\* enable pin low, as the upper one does
SendCalls(d, value, mode, lowAgain) ==
    FrameCalls(d, FrameOf(value, mode, TRUE), TRUE)
    \o FrameCalls(d, FrameOf(value, mode, FALSE), lowAgain)
    \o << [call |-> "delayMicroseconds", pin |-> 0, arg |-> 40] >>

\* C16 as stated: both frames go out by the six-step sequence.
C16_AsClaimed ==
    \A i \in 2 .. Len(calls) :
        calls[i].op = "send" =>
            Follows(OpTrace(i),
                    SendCalls(calls[i].pre, calls[i].args[1], calls[i].args[2], TRUE))

(***************************************************************************)
(* C16. In send the upper frame is transmitted by exactly: (two-wire mode  *)
(* only) shift out 0x00; drive the enable pin low; shift out the frame;    *)
(* drive the enable pin high; delay at least 1 us; drive the enable pin    *)
(* low. The lower frame is transmitted by the same calls without the       *)
(* drive-low before its shift-out: the pin is still low from the end of    *)
(* the upper frame's pulse.                                                *)
(***************************************************************************)
C16_FrameSequences ==
    \A i \in 2 .. Len(calls) :
        calls[i].op = "send" =>
            Follows(OpTrace(i),
                    SendCalls(calls[i].pre, calls[i].args[1], calls[i].args[2], FALSE))

\* send(0x41, data) has run on a two-wire driver: twelve calls, three of them
\* drive-lows
C16_Witness ==
    /\ Len(calls) = 2
    /\ calls[2].op = "send" /\ calls[2].args = << 65, HIGH >>
    /\ lcd._two_wire = 1
    /\ Len(OpTrace(2)) = 12
    /\ Shifts(OpTrace(2)) = << 0, 164, 0, 140 >>
    /\ Len(Positions(OpTrace(2), IsFall)) = 3

(***************************************************************************)
(* What the controller latches: on each enable pulse, the frame that was   *)
(* shifted out last.                                                       *)
(***************************************************************************)
IsRise(e) == e.call = "digitalWrite" /\ e.arg = HIGH

\* the shift-outs and the rising edges of the enable pin
IsShiftOrRise(e) == IsShift(e) \/ IsRise(e)

\* the byte shifted out last at or before the k-th of them (0 if there is none)
RECURSIVE LastShift(_, _)
LastShift(evs, k) ==
    IF k = 0 THEN 0
    ELSE IF IsShift(evs[k]) THEN evs[k].arg
    ELSE LastShift(evs, k - 1)

Latched(tr) ==
    LET evs == SelectSeq(tr, IsShiftOrRise)
        IsRiseAt(k) == IsRise(evs[k])
        rp == SelectSeq([k \in 1 .. Len(evs) |-> k], IsRiseAt)
    IN  [k \in 1 .. Len(rp) |-> LastShift(evs, rp[k])]

\* a controller in 4-bit mode takes the nibbles two by two: register select
\* and byte of each pair
Paired(l) ==
    [k \in 1 .. Len(l) \div 2 |->
        << RSBit(l[2 * k - 1]), Nibble(l[2 * k - 1]) * 16 + Nibble(l[2 * k]) >>]

\* register select and byte of each transmission of a sequence of them
Decoded(tx) == [k \in 1 .. Len(tx) |-> << RSBit(tx[k][1]), ByteOf(tx[k]) >>]

(***************************************************************************)
(* C17. init4bits(value) transmits exactly one frame,                      *)
(* enable-gate bit | ((value >> 1) & 0x78), register select clear, with    *)
(* exactly one enable pulse, and only init uses it: after construction     *)
(* every transmission is a two-frame pair, so the number of enable pulses  *)
(* made after construction is even at every operation boundary, and a      *)
(* controller that pairs consecutive latched nibbles reassembles exactly   *)
(* the bytes passed to send, in order.                                     *)
(***************************************************************************)
C17_NibblesOnlyInInit ==
    \* stated of the call that has just returned, which every call once is
    \A i \in {Len(calls)} \ {0} :
        LET tr == OpTrace(i)
            l == Latched(tr)
            tx == Transmissions(tr)
        IN  \* one pulse per frame, the frame being in the register
            /\ l = Frames(tr)
            /\ IF i = 1
               THEN \* the four init4bits of init: 0x30, 0x30, 0x30, 0x20
                    /\ Len(l) = 14
                    /\ SubSeq(l, 1, 4) =
                          << 128 + 8 * (48 \div 16), 128 + 8 * (48 \div 16),
                             128 + 8 * (48 \div 16), 128 + 8 * (32 \div 16) >>
                    /\ \A k \in 1 .. 4 :
                          Len(tx[k]) = 1 /\ tx[k][1] = l[k] /\ RSBit(l[k]) = 0
                    \* then whole pairs: the controller's pairs are the bytes sent
                    /\ Paired(SubSeq(l, 5, Len(l))) = Decoded(SubSeq(tx, 5, Len(tx)))
               ELSE \* after construction: whole pairs, an even number of pulses
                    /\ Len(l) % 2 = 0
                    /\ Len(l) > 0
                    /\ \A g \in 1 .. Len(tx) : Len(tx[g]) = 2
                    /\ Paired(l) = Decoded(tx)
                    /\ calls[i].op = "command" =>
                          Paired(l) = << << 0, calls[i].args[1] >> >>
                    /\ calls[i].op = "write" =>
                          Paired(l) = << << 1, calls[i].args[1] >> >>

\* command(9); write('A') have run: 4 nibbles, then 5 + 1 + 1 pairs
C17_Witness ==
    /\ Len(calls) = 3
    /\ calls[2].op = "command" /\ calls[2].args = << 9 >>
    /\ calls[3].op = "write" /\ calls[3].args = << 65 >>
    /\ Len(Latched(trace)) = 18
    /\ SubSeq(Paired(SubSeq(Latched(trace), 5, 18)), 6, 7) = << << 0, 9 >>, << 1, 65 >> >>

(***************************************************************************)
(* C18. For every row, every column and both line configurations, the      *)
(* index setCursor uses into the four-entry row-offset table, after its    *)
(* clamp, is within 0..3: setCursor never reads the table out of bounds.   *)
(***************************************************************************)
C18_IndexInBounds ==
    \A i \in 2 .. Len(calls) :
        calls[i].op = "setCursor" =>
            ClampRow(calls[i].pre, calls[i].args[2]) \in 0 .. Len(row_offsets) - 1

(***************************************************************************)
(* The level of the enable pin, as the driver has driven it.               *)
(***************************************************************************)
\* the level last driven at or before index k of tr: << >> while the pin has
\* not been driven at all (pinMode alone sets no level)
RECURSIVE LevelAt(_, _)
LevelAt(tr, k) ==
    IF k = 0 THEN << >>
    ELSE IF tr[k].call = "digitalWrite" THEN << tr[k].arg >>
    ELSE LevelAt(tr, k - 1)

\* the rising edges of tr after index p and before the next shift-out
RisesAfter(tr, p) ==
    {k \in p + 1 .. NextAfter(tr, p, IsShift) - 1 : IsRise(tr[k])}

\* The discipline of the enable pin over the call that has just returned
\* (which every call once is). With strict, every shift-out finds the pin
\* driven low; without, the first shift-out of a two-wire init, the 0x00 that
\* precedes the first drive of the pin, may find it not yet driven.
EnableDiscipline(strict) ==
    \A i \in {Len(calls)} \ {0} :
        LET from == calls[i].from
            tr == OpTrace(i)
            shifts == Positions(tr, IsShift)
        IN  \* shift-outs happen while the pin is low
            /\ \A n \in 1 .. Len(shifts) :
                  LET level == LevelAt(trace, from + shifts[n] - 1)
                  IN  \/ level = << LOW >>
                      \/ /\ ~strict
                         /\ level = << >>
                         /\ i = 1 /\ n = 1
                         /\ lcd._two_wire = 1
                         /\ tr[shifts[n]].arg = 0
            \* a drive-high is followed by a delay >= 1 us, then a drive-low
            /\ \A p \in 1 .. Len(tr) :
                  IsRise(tr[p]) =>
                      /\ p + 2 <= Len(tr)
                      /\ tr[p + 1].call = "delayMicroseconds" /\ tr[p + 1].arg >= 1
                      /\ IsFall(tr[p + 2])
            \* one pulse per frame, none after a 0x00 and none before a shift-out
            /\ \A n \in 1 .. Len(shifts) :
                  Cardinality(RisesAfter(tr, shifts[n])) =
                      IF tr[shifts[n]].arg # 0 THEN 1 ELSE 0
            /\ Len(shifts) > 0
            /\ \A k \in 1 .. shifts[1] : ~IsRise(tr[k])
            \* the pin is low when the operation returns
            /\ LevelAt(trace, Len(trace)) = << LOW >>

\* C19 as stated: every shift-out finds the enable pin's last driven level low.
C19_AsClaimed == EnableDiscipline(TRUE)

(***************************************************************************)
(* C19. In both wiring modes, across init and any sequence of operations:  *)
(* every shift-out (frame or 0x00 clear) happens while the enable pin's    *)
(* last driven level is low, except the first 0x00 clear of a two-wire     *)
(* init, which precedes the first drive of the pin; every drive-high is    *)
(* followed by a delay of at least 1 us and then a drive-low before the    *)
(* next shift-out; there is exactly one enable pulse per non-zero frame;   *)
(* and the pin is low whenever a public operation returns.                 *)
(***************************************************************************)
C19_EnableDiscipline == EnableDiscipline(FALSE)

\* a two-wire driver has been constructed, its first shift-out (the 0x00 at
\* index 5) made before any drive of the pin, and cursor(); write(..) have run
C19_Witness ==
    /\ Len(calls) = 3
    /\ lcd._two_wire = 1
    /\ calls[2].op = "cursor" /\ calls[3].op = "write"
    /\ IsShift(trace[5]) /\ trace[5].arg = 0 /\ LevelAt(trace, 4) = << >>
    /\ LevelAt(trace, calls[3].from) = << LOW >>
    /\ LevelAt(trace, Len(trace)) = << LOW >>
    /\ Cardinality({k \in 1 .. Len(OpTrace(3)) : IsRise(OpTrace(3)[k])}) = 2

(***************************************************************************)
(* Two callers on one driver. An operation is begun as a whole (its        *)
(* primitive calls are those of the sequential operation) and then carried *)
(* out one primitive call at a time, the callers' calls interleaving       *)
(* freely unless a lock serializes whole operations. trace is not extended *)
(* here: what the interleaving does to the display is kept in bus.         *)
(***************************************************************************)
\* the constructor has returned: the pin is low, the register holds the last
\* frame of init, and the controller's latches are counted from here
InitConc ==
    \E sd \in DataPins, sc \in ClockPins, en \in EnablePins, guarded \in BOOLEAN :
        LET r == init(Unconstructed, sd, sc, en, 1, 0)
        IN  /\ lcd = r.lcd
            /\ trace = r.out
            /\ calls = << [op |-> "ShiftRegLCD", args |-> <<sd, sc, en, 1, 0>>,
                           from |-> 0, pre |-> Unconstructed, ret |-> r.ret] >>
            /\ threads = NoThreads(guarded)
            /\ bus = [sr |-> << [by |-> 0, no |-> 0,
                                 val |-> Shifts(r.out)[Len(Shifts(r.out))]] >>,
                      en |-> LevelAt(r.out, Len(r.out)),
                      latched |-> << >>]

\* the lock is free, or the callers use none
MayEnter(t) == threads.guarded => threads.holder = 0
Enter(t) == IF threads.guarded THEN t ELSE threads.holder
Leave(t) == IF threads.guarded THEN 0 ELSE threads.holder

\* caller t begins operation op, whose sequential run is r
Begin(t, op, args, r) ==
    /\ constructed
    /\ ~threads.began[t]
    /\ MayEnter(t)
    /\ lcd' = r.lcd
    /\ calls' = Append(calls, [op |-> op, args |-> args, from |-> Len(trace),
                               pre |-> lcd, ret |-> r.ret, by |-> t])
    /\ threads' = [threads EXCEPT !.began[t] = TRUE, !.todo[t] = r.out,
                                  !.holder = Enter(t)]
    /\ UNCHANGED <<trace, bus>>

ThreadWrite ==
    \E t \in Threads, value \in Bytes : Begin(t, "write", <<value>>, write(lcd, value))

ThreadClear == \E t \in Threads : Begin(t, "clear", <<>>, clear(lcd))

\* the hardware after primitive call e made by caller t: shiftOut loads the
\* register (a frame is numbered within its operation); the controller
\* latches the register on a falling edge of the enable pin, gated by bit 7
AfterCall(t, e) ==
    CASE e.call = "shiftOut" ->
            [bus EXCEPT !.sr = << [by |-> t, val |-> e.arg,
                                   no |-> IF e.arg # 0 THEN threads.shifted[t] + 1
                                          ELSE 0] >>]
      [] e.call = "digitalWrite" /\ e.arg = HIGH -> [bus EXCEPT !.en = << HIGH >>]
      [] e.call = "digitalWrite" /\ e.arg = LOW ->
            [bus EXCEPT !.en = << LOW >>,
                        !.latched =
                            IF /\ bus.en = << HIGH >>
                               /\ bus.sr # << >>
                               /\ bus.sr[1].val >= SR_EN_BIT
                            THEN Append(@, bus.sr[1]) ELSE @]
      [] OTHER -> bus

\* caller t makes the next primitive call of its operation; with the last one
\* the operation returns (and gives up the lock)
Step(t) ==
    /\ threads.todo[t] # << >>
    /\ LET e == Head(threads.todo[t])
           rest == Tail(threads.todo[t])
       IN  /\ bus' = AfterCall(t, e)
           /\ threads' =
                 [threads EXCEPT
                     !.todo[t] = rest,
                     !.shifted[t] = IF IsFrame(e) THEN @ + 1 ELSE @,
                     !.holder = IF rest = << >> THEN Leave(t) ELSE @]
    /\ UNCHANGED <<lcd, trace, calls>>

ThreadStep == \E t \in Threads : Step(t)

NextConc == ThreadWrite \/ ThreadClear \/ ThreadStep

SpecConc == InitConc /\ [][NextConc]_vars

\* the k-th pair of nibbles the controller has latched is the upper and the
\* lower frame of one operation
WholePair(k) ==
    LET u == bus.latched[2 * k - 1]
        l == bus.latched[2 * k]
    IN  u.by = l.by /\ u.no = 1 /\ l.no = 2

Corrupted == \E k \in 1 .. Len(bus.latched) \div 2 : ~WholePair(k)

\* register select and byte sent by the operation of caller t
SentBy(t) ==
    LET c == calls[CHOOSE i \in 2 .. Len(calls) : calls[i].by = t]
    IN  IF c.op = "write" THEN << 1, c.args[1] >> ELSE << 0, LCD_CLEARDISPLAY >>

Quiet == \A t \in Threads : threads.began[t] /\ threads.todo[t] = << >>

(***************************************************************************)
(* C20. The driver is not reentrant. With two callers and no mutual        *)
(* exclusion, a state is reachable in which the controller has latched two *)
(* consecutive nibbles that are not the upper and lower frame of one byte  *)
(* (C20_Witness). When each operation, settle delays included, runs under  *)
(* one lock, no such state is reachable: the latched nibbles are whole     *)
(* per-operation frame pairs, one after the other, each pair the byte its  *)
(* operation sent.                                                         *)
(***************************************************************************)
C20_SerializedIsWhole ==
    threads.guarded =>
        LET l == bus.latched
            vals == [k \in 1 .. Len(l) |-> l[k].val]
        IN  /\ ~Corrupted
            /\ \A k \in 1 .. Len(l) \div 2 : Paired(vals)[k] = SentBy(l[2 * k].by)
            /\ Len(l) % 2 = 1 => l[Len(l)].no = 1
            /\ \A t, u \in Threads :
                  (t # u /\ threads.todo[t] # << >>) => threads.todo[u] = << >>
            /\ Quiet => Len(l) = 2 * Cardinality(Threads)

\* without the lock: both operations have returned, and the controller has
\* paired a nibble of one caller with a nibble of the other
C20_Witness ==
    /\ ~threads.guarded
    /\ Quiet
    /\ Len(bus.latched) = 4
    /\ bus.latched[1].by # bus.latched[2].by
    /\ Corrupted

=============================================================================
